---- MODULE Spec2Model ----
(***************************************************************************)
(* Wildcard matcher of pyglob (src/src/lib.rs).                            *)
(*                                                                         *)
(* A string is a sequence of code points, a grapheme is a non-empty        *)
(* sequence of code points, and the matcher works on vectors of graphemes. *)
(* set_cache is modelled twice from the same code: as a machine with an    *)
(* explicit call stack (one action per step of a set_cache activation),    *)
(* and as the recursive operator SetCache used where two calls have to be  *)
(* compared.  A panic (index out of range, unwrap of None) is modelled as  *)
(* the absence of a successor state: the guarded step is simply disabled.  *)
(***************************************************************************)
EXTENDS Integers, Sequences, FiniteSets, TLC

\* ---- bounds ------------------------------------------------------------
MaxPatLen == 3
MaxTextLen == 3
MaxRawLen == 3
PreMaxPatLen == 3
PreMaxTextLen == 4

\* ---- alphabets ---------------------------------------------------------
\* "m" stands for a code point with Grapheme_Extend (a combining mark).
Extend == {"m"}
Star == <<"*">>
QMark == <<"?">>
Empty == <<>>
Alphabet == {<<"a">>, <<"b">>, Star, QMark}
RawAlphabet == {"a", "*", "?", "m"}

SeqsUpTo(S, n) == UNION {[1..k -> S] : k \in 0..n}

RECURSIVE Concat(_)
Concat(gs) == IF gs = <<>> THEN <<>> ELSE Head(gs) \o Concat(Tail(gs))

VARIABLES rawPattern, rawText, pattern, text, cache, stack, phase, result,
          writes, calls

vars == <<rawPattern, rawText, pattern, text, cache, stack, phase, result,
          writes, calls>>

\* ---- grapheme segmentation (str::graphemes(true)) ------------------------
RECURSIVE GraphemeLoop(_, _, _)
GraphemeLoop(rest, cur, out) ==
    IF rest = <<>> THEN Append(out, cur)
    ELSE IF Head(rest) \in Extend
         THEN GraphemeLoop(Tail(rest), Append(cur, Head(rest)), out)
         ELSE GraphemeLoop(Tail(rest), <<Head(rest)>>, Append(out, cur))

CodePoints(s) == [i \in 1..Len(s) |-> <<s[i]>>]

Graphemes(s) == IF s = <<>> THEN <<>> ELSE GraphemeLoop(Tail(s), <<Head(s)>>, <<>>)

\* ---- helpers of set_cache ------------------------------------------------
Cached(c, key) == key \in DOMAIN c

Uncached(c, key) == FALSE

\* line 135: cache.contains_key(&(row, column))
CacheHit(c, key) == Cached(c, key)

\* cache.get(key).unwrap_or(&false)
Get(c, key) == IF key \in DOMAIN c THEN c[key] ELSE FALSE

\* HashMap::insert overwrites an existing entry
Insert(c, key, v) == [k \in DOMAIN c \cup {key} |-> IF k = key THEN v ELSE c[k]]

BaseFalse == [k \in {<<1, 1>>} |-> FALSE]

\* line 117: cache.insert((1, 1), true)
InitialCache == [k \in {<<1, 1>>} |-> TRUE]

GoalPastEnd(p, t) == <<Len(p) + 2, Len(t) + 1>>

\* line 119: the goal coordinate
Goal(p, t) == <<Len(p) + 1, Len(t) + 1>>

IsBorder(row, column) == 0 \in {row, column}

BorderTrue == TRUE

\* lines 140, 144: the value of a border cell
BorderValue == FALSE

\* lines 149, 152: the indexes pattern[row - 2], text[column - 2] are in range
IndexOK(p, t, row, column) ==
    /\ (row = 1 \/ row - 2 < Len(p))
    /\ (column = 1 \/ column - 2 < Len(t))

PatternChar(p, row) == IF row = 1 THEN Empty ELSE p[row - 1]

TextChar(t, column) == IF column = 1 THEN Empty ELSE t[column - 1]

CharsMatchNoStarGuard(pc, tc) == pc = tc \/ pc = QMark

CharsMatchNoQMark(pc, tc) == pc = tc /\ tc # Star

\* line 155
CharsMatch(pc, tc) == (pc = tc /\ tc # Star) \/ pc = QMark

DiagCoord(row, column) == <<row - 1, column - 1>>

UpSkipsRow(row, column) == <<row - 2, column>>

\* line 167: the first cell a star looks at
UpCoord(row, column) == <<row - 1, column>>

LeftAsDiag(row, column) == <<row - 1, column - 1>>

\* line 174: the second cell a star looks at
LeftCoord(row, column) == <<row, column - 1>>

\* ---- set_cache / match_with_cache as operators ---------------------------
RECURSIVE SetCache(_, _, _, _, _)
SetCache(c, p, t, row, column) ==
    LET key == <<row, column>> IN
    IF CacheHit(c, key) THEN c
    ELSE IF IsBorder(row, column) THEN Insert(c, key, BorderValue)
    ELSE LET pc == PatternChar(p, row)
             tc == TextChar(t, column)
         IN IF CharsMatch(pc, tc)
            THEN LET c1 == SetCache(c, p, t, row - 1, column - 1)
                 IN Insert(c1, key, Get(c1, DiagCoord(row, column)))
            ELSE IF pc = Star
            THEN LET c1 == SetCache(c, p, t, row - 1, column)
                 IN IF Get(c1, UpCoord(row, column))
                    THEN Insert(c1, key, TRUE)
                    ELSE LET l == LeftCoord(row, column)
                             c2 == SetCache(c1, p, t, l[1], l[2])
                         IN IF Get(c2, l)
                            THEN Insert(c2, key, TRUE)
                            ELSE Insert(c2, key, FALSE)
            ELSE Insert(c, key, FALSE)

MatchWithCache(p, t) ==
    SetCache(InitialCache, p, t, Goal(p, t)[1], Goal(p, t)[2])[Goal(p, t)]

\* ---- preprocessing -------------------------------------------------------
\* Vec::remove(i) with a 0-based index
RemoveAt(s, i) == SubSeq(s, 1, i) \o SubSeq(s, i + 2, Len(s))

RECURSIVE DedupLoop(_, _)
DedupLoop(p, i) ==
    IF i < Len(p)
    THEN IF p[i + 1] = Star /\ p[i] = Star
         THEN DedupLoop(RemoveAt(p, i), i)
         ELSE DedupLoop(p, i + 1)
    ELSE p

remove_duplicate_stars(p) == DedupLoop(p, 1)

RECURSIVE FrontLoop(_, _, _)
FrontLoop(p, t, i) ==
    IF /\ i < Len(p) /\ i < Len(t)
       /\ \/ (p[i + 1] = t[i + 1] /\ t[i + 1] # Star)
          \/ p[i + 1] = QMark
    THEN FrontLoop(RemoveAt(p, i), RemoveAt(t, i), i + 1)
    ELSE <<p, t>>

RECURSIVE BackLoop(_, _, _, _)
BackLoop(p, t, i, j) ==
    IF /\ i > 0 /\ j > 0
       /\ \/ (p[i + 1] = t[j + 1] /\ t[j + 1] # Star)
          \/ p[i + 1] = QMark
    THEN BackLoop(RemoveAt(p, i), RemoveAt(t, j), i - 1, j - 1)
    ELSE <<p, t>>

remove_matching_start_and_end(p, t) ==
    LET f == FrontLoop(p, t, 0) IN
    IF Len(f[1]) = 0 \/ Len(f[2]) = 0 THEN f
    ELSE BackLoop(f[1], f[2], Len(f[1]) - 1, Len(f[2]) - 1)

preprocessing(p, t) == remove_matching_start_and_end(remove_duplicate_stars(p), t)

\* ---- the call stack machine ----------------------------------------------
Frame(key, pc) == [row |-> key[1], column |-> key[2], pc |-> pc]

Top == stack[Len(stack)]
TopKey == <<Top.row, Top.column>>
Pop == SubSeq(stack, 1, Len(stack) - 1)
Running == phase = "run" /\ stack # <<>>
Fresh == Running /\ Top.pc = "enter" /\ ~CacheHit(cache, TopKey)
Interior == Fresh /\ ~IsBorder(Top.row, Top.column)

Bump(w, key) == [k \in DOMAIN w \cup {key} |-> IF k \in DOMAIN w THEN
                                                 (IF k = key THEN w[k] + 1 ELSE w[k])
                                               ELSE 1]

\* insert the value of the top activation and return from it
Return(v) ==
    /\ cache' = Insert(cache, TopKey, v)
    /\ writes' = Bump(writes, TopKey)
    /\ stack' = Pop
    /\ UNCHANGED <<rawPattern, rawText, pattern, text, phase, result, calls>>

\* recursive call set_cache(.., key); the caller resumes at pc
Recurse(key, pc) ==
    /\ stack' = Append([stack EXCEPT ![Len(stack)].pc = pc], Frame(key, "enter"))
    /\ calls' = calls + 1
    /\ UNCHANGED <<rawPattern, rawText, pattern, text, cache, phase, result, writes>>

Inputs(maxP, maxT) ==
    /\ pattern \in SeqsUpTo(Alphabet, maxP)
    /\ text \in SeqsUpTo(Alphabet, maxT)
    /\ rawPattern = Concat(pattern)
    /\ rawText = Concat(text)

Idle ==
    /\ cache = << >>
    /\ stack = << >>
    /\ result = FALSE
    /\ writes = << >>
    /\ calls = 0

Init == Inputs(MaxPatLen, MaxTextLen) /\ Idle /\ phase = "call"

\* match_with_cache up to the first call of set_cache
Call ==
    /\ phase = "call"
    /\ cache' = InitialCache
    /\ writes' = [k \in DOMAIN InitialCache |-> 1]
    /\ stack' = <<Frame(Goal(pattern, text), "enter")>>
    /\ calls' = 1
    /\ phase' = "run"
    /\ UNCHANGED <<rawPattern, rawText, pattern, text, result>>

Hit ==
    /\ Running /\ Top.pc = "enter" /\ CacheHit(cache, TopKey)
    /\ stack' = Pop
    /\ UNCHANGED <<rawPattern, rawText, pattern, text, cache, phase, result, writes, calls>>

Border ==
    /\ Fresh /\ IsBorder(Top.row, Top.column)
    /\ Return(BorderValue)

Diagonal ==
    /\ Interior /\ IndexOK(pattern, text, Top.row, Top.column)
    /\ CharsMatch(PatternChar(pattern, Top.row), TextChar(text, Top.column))
    /\ Recurse(DiagCoord(Top.row, Top.column), "after_diag")

AfterDiagonal ==
    /\ Running /\ Top.pc = "after_diag"
    /\ Return(Get(cache, DiagCoord(Top.row, Top.column)))

StarUp ==
    /\ Interior /\ IndexOK(pattern, text, Top.row, Top.column)
    /\ ~CharsMatch(PatternChar(pattern, Top.row), TextChar(text, Top.column))
    /\ PatternChar(pattern, Top.row) = Star
    /\ Recurse(UpCoord(Top.row, Top.column), "after_up")

StarUpTrue ==
    /\ Running /\ Top.pc = "after_up"
    /\ Get(cache, UpCoord(Top.row, Top.column))
    /\ Return(TRUE)

StarLeft ==
    /\ Running /\ Top.pc = "after_up"
    /\ ~Get(cache, UpCoord(Top.row, Top.column))
    /\ Recurse(LeftCoord(Top.row, Top.column), "after_left")

AfterLeft ==
    /\ Running /\ Top.pc = "after_left"
    /\ Return(Get(cache, LeftCoord(Top.row, Top.column)))

Mismatch ==
    /\ Interior /\ IndexOK(pattern, text, Top.row, Top.column)
    /\ ~CharsMatch(PatternChar(pattern, Top.row), TextChar(text, Top.column))
    /\ PatternChar(pattern, Top.row) # Star
    /\ Return(FALSE)

\* match_with_cache line 120: the unwrap needs the goal entry
Finish ==
    /\ phase = "run" /\ stack = <<>>
    /\ Cached(cache, Goal(pattern, text))
    /\ result' = cache[Goal(pattern, text)]
    /\ phase' = "done"
    /\ UNCHANGED <<rawPattern, rawText, pattern, text, cache, stack, writes, calls>>

Next ==
    \/ Call
    \/ Hit
    \/ Border
    \/ Diagonal
    \/ AfterDiagonal
    \/ StarUp
    \/ StarUpTrue
    \/ StarLeft
    \/ AfterLeft
    \/ Mismatch
    \/ Finish

Spec == Init /\ [][Next]_vars

FairSpec == Spec /\ WF_vars(Next)

Done == phase = "done"

\* the operator and the machine compute the same result
MachineAgreesWithOperator == Done => result = MatchWithCache(pattern, text)

\* ---- is_wildcard_match from raw strings ---------------------------------
InitSeg ==
    /\ rawPattern \in SeqsUpTo(RawAlphabet, MaxRawLen)
    /\ rawText \in SeqsUpTo(RawAlphabet, MaxRawLen)
    /\ pattern = <<>>
    /\ text = <<>>
    /\ Idle
    /\ phase = "segment"

\* is_wildcard_match lines 29-30
Segment ==
    /\ phase = "segment"
    /\ pattern' = Graphemes(rawPattern)
    /\ text' = Graphemes(rawText)
    /\ phase' = "call"
    /\ UNCHANGED <<rawPattern, rawText, cache, stack, result, writes, calls>>

NextSeg == Segment \/ Next

SpecSeg == InitSeg /\ [][NextSeg]_vars

\* ---- is_wildcard_match with the preprocessing of line 33 enabled --------
\* rawPattern and rawText keep the original input, pattern and text are the
\* vectors the preprocessor rewrites and the matcher then runs on.
InitPre == Inputs(PreMaxPatLen, PreMaxTextLen) /\ Idle /\ phase = "dedup"

RemoveDuplicateStars ==
    /\ phase = "dedup"
    /\ pattern' = remove_duplicate_stars(pattern)
    /\ phase' = "strip"
    /\ UNCHANGED <<rawPattern, rawText, text, cache, stack, result, writes, calls>>

RemoveMatchingStartAndEnd ==
    /\ phase = "strip"
    /\ pattern' = remove_matching_start_and_end(pattern, text)[1]
    /\ text' = remove_matching_start_and_end(pattern, text)[2]
    /\ phase' = "call"
    /\ UNCHANGED <<rawPattern, rawText, cache, stack, result, writes, calls>>

NextPre == RemoveDuplicateStars \/ RemoveMatchingStartAndEnd \/ Next

SpecPre == InitPre /\ [][NextPre]_vars

\* ---- reference semantics ------------------------------------------------
RECURSIVE RefMatch(_, _)
RefMatch(p, t) ==
    IF p = <<>> THEN t = <<>>
    ELSE IF Head(p) = Star
         THEN RefMatch(Tail(p), t) \/ (t # <<>> /\ RefMatch(p, Tail(t)))
         ELSE /\ t # <<>>
              /\ (Head(p) = QMark \/ Head(p) = Head(t))
              /\ RefMatch(Tail(p), Tail(t))

Elems(s) == {s[i] : i \in 1..Len(s)}

AllOf(s, g) == \A i \in 1..Len(s) : s[i] = g

\* C1: the result of is_wildcard_match is true exactly when the whole
\* pattern matches the whole text under the reference wildcard semantics
\* (literal = identical grapheme, ? = exactly one grapheme, * = zero or
\* more graphemes, both sequences consumed completely).
C1_MatchesReference == Done => result = RefMatch(pattern, text)

C1_Witness ==
    /\ Done /\ result = TRUE
    /\ Star \in Elems(pattern) /\ QMark \in Elems(pattern)
    /\ <<"a">> \in Elems(pattern)
    /\ Star \in Elems(text) /\ QMark \in Elems(text)

\* C2: every call terminates with a boolean and without failure: every
\* index pattern[row-2], text[column-2] that is read is in range, the memo
\* holds the goal entry when set_cache has returned, and the call
\* eventually returns.
NoPanic ==
    /\ Interior => IndexOK(pattern, text, Top.row, Top.column)
    /\ (phase = "run" /\ stack = <<>>) => Cached(cache, <<Len(pattern) + 1, Len(text) + 1>>)
    /\ Done => result \in BOOLEAN

C2_TerminatesWithoutFailure == []NoPanic /\ <>Done

C2_Witness ==
    /\ Done /\ Len(pattern) >= 2 /\ Len(text) >= 2 /\ calls >= 5
    /\ Cached(cache, <<Len(pattern) + 1, Len(text) + 1>>)

\* C3: the pattern "*" matches every text, also the empty text and texts
\* that contain the graphemes * or ?.
C3_StarMatchesEveryText == (Done /\ pattern = <<Star>>) => result = TRUE

C3_Witness ==
    /\ Done /\ pattern = <<Star>> /\ result = TRUE
    /\ Star \in Elems(text) /\ QMark \in Elems(text)

\* C4: against a non-empty text of n graphemes, a pattern of n question
\* marks matches, and a pattern of n-1 or n+1 question marks does not.
C4_QMarkConsumesExactlyOne ==
    (/\ Done /\ Len(text) >= 1 /\ AllOf(pattern, QMark)
     /\ Len(pattern) \in {Len(text) - 1, Len(text), Len(text) + 1})
    => result = (Len(pattern) = Len(text))

C4_Witness ==
    /\ Done /\ Len(text) = 2 /\ pattern = <<QMark, QMark>> /\ result = TRUE
    /\ Star \in Elems(text)

\* C5: a pattern without * and ? matches exactly the text equal to it,
\* grapheme for grapheme.
C5_LiteralPatternIsEquality ==
    (Done /\ Star \notin Elems(pattern) /\ QMark \notin Elems(pattern))
    => result = (text = pattern)

C5_Witness ==
    /\ Done /\ Star \notin Elems(pattern) /\ QMark \notin Elems(pattern)
    /\ Len(pattern) >= 2 /\ text = pattern /\ result = TRUE

MaximalStarRun(p, i, j) ==
    /\ i <= j
    /\ \A k \in i..j : p[k] = Star
    /\ (i = 1 \/ p[i - 1] # Star)
    /\ (j = Len(p) \/ p[j + 1] # Star)

CollapseRun(p, i, j) == SubSeq(p, 1, i) \o SubSeq(p, j + 1, Len(p))

\* C6: replacing any maximal run of consecutive stars of the pattern by a
\* single star does not change the result of the match.
C6_StarRunCollapse ==
    Done => \A i \in 1..Len(pattern) : \A j \in i..Len(pattern) :
                MaximalStarRun(pattern, i, j)
                => MatchWithCache(CollapseRun(pattern, i, j), text) = result

C6_Witness ==
    /\ Done /\ result = TRUE /\ Len(text) >= 2
    /\ \E i \in 1..Len(pattern) : \E j \in (i + 1)..Len(pattern) :
           MaximalStarRun(pattern, i, j)

\* C7: the empty text is matched exactly by the patterns all of whose
\* graphemes are stars (the empty pattern included).
C7_EmptyTextIffAllStars == (Done /\ text = <<>>) => result = AllOf(pattern, Star)

C7_Witness ==
    /\ Done /\ text = <<>> /\ Len(pattern) >= 2 /\ AllOf(pattern, Star)
    /\ result = TRUE

\* number of extended grapheme clusters of a string: a cluster starts at the
\* first code point and at every code point that is not an Extend.
NumClusters(s) == Cardinality({i \in 1..Len(s) : i = 1 \/ s[i] \notin Extend})

\* C8: the matcher works on grapheme clusters: the text vector has one
\* element per cluster of the string, and a pattern of question marks
\* matches exactly when it has one question mark per cluster of the text,
\* whatever the number of code points of a cluster.
C8_GraphemeAtomicity ==
    /\ phase # "segment" => (Len(text) = NumClusters(rawText) /\ Concat(text) = rawText)
    /\ (Done /\ rawPattern # <<>> /\ AllOf(rawPattern, "?"))
       => result = (Len(rawPattern) = NumClusters(rawText))

C8_Witness ==
    /\ Done /\ rawPattern = <<"?">> /\ Len(rawText) >= 2 /\ result = TRUE

\* C10: the memo is write-once and bounded: every coordinate is inserted at
\* most once, an existing entry never changes, every key lies in
\* 0..P+1 x 0..T+1, the table has at most (P+2)*(T+2) entries and the number
\* of set_cache calls is at most 1 + 2*(P+2)*(T+2).
MemoBounded ==
    /\ DOMAIN writes = DOMAIN cache
    /\ \A k \in DOMAIN cache :
          /\ k[1] \in 0..(Len(pattern) + 1)
          /\ k[2] \in 0..(Len(text) + 1)
          /\ writes[k] <= 1
    /\ Cardinality(DOMAIN cache) <= (Len(pattern) + 2) * (Len(text) + 2)
    /\ calls <= 1 + 2 * (Len(pattern) + 2) * (Len(text) + 2)

MemoStable == \A k \in DOMAIN cache : k \in DOMAIN cache' /\ cache'[k] = cache[k]

C10_MemoWriteOnce == []MemoBounded /\ [][MemoStable]_vars

C10_Witness ==
    /\ Done /\ Cardinality(DOMAIN cache) >= 6
    /\ calls > Cardinality(DOMAIN cache)

\* C9: with the preprocessing pass enabled, the matcher run on the
\* preprocessed pair returns what match_with_cache returns on the original
\* pattern and text.
C9_PreprocessingPreserves ==
    Done => result = MatchWithCache(Graphemes(rawPattern), Graphemes(rawText))

====
